---- MODULE Spec2Model ----
(***************************************************************************)
(* Model of divar_bot.py: the incremental crawl-and-notify engine.         *)
(*                                                                         *)
(* Two coroutines of one asyncio event loop run crawl cycles: the job      *)
(* periodic_check (timer) and the callback button_handler ('check_new').   *)
(* get_new_posts is synchronous (requests + time.sleep), so it is one      *)
(* atomic step; every `await` of a Telegram call is a point where the      *)
(* other coroutine may run.  The file /data/sent_posts.json is the only    *)
(* state the two coroutines share.                                         *)
(***************************************************************************)
EXTENDS Integers, Sequences, FiniteSets, TLC

\* ---------------------------------------------------------------- bounds
MaxId      == 2   \* listing tokens are 1..MaxId
MaxPages   == 2   \* pages the upstream serves
MaxWidgets == 2   \* entries of list_widgets on one page
MaxEntries == 3   \* entries of list_widgets over all pages of one upstream
NumChats   == 2   \* entries of TELEGRAM_CHAT_IDS
MaxCycles  == 3   \* calls of get_new_posts in one run of the model

IDs == 1..MaxId
\* a missing or empty 'token' (falsy in Python)
NoToken == 0
\* a missing or empty pagination 'data' (falsy in Python)
NoCursor == 0
\* search_divar() without page_data asks for the first page
FirstPage == 1

TELEGRAM_CHAT_IDS == [i \in 1..NumChats |-> i]

Timer  == "periodic_check"
Button == "button_handler"
Handlers == {Timer, Button}
Other(c) == IF c = Timer THEN Button ELSE Timer

VARIABLES
  file,          \* /data/sent_posts.json: [state, content]
  pc,            \* where each coroutine stands
  new_posts,     \* local new_posts of each handler (after get_new_posts)
  sent_posts,    \* local sent_posts of each handler (after get_new_posts)
  post_i,        \* position of `for post in new_posts`
  chat_i,        \* position of `for chat_id in chat_ids`
  sent_count,    \* button_handler's sent_count
  budget,        \* calls of get_new_posts still allowed in this run
  \* history variables: what a cycle has done so far, kept until it ends
  served,        \* the pages the search API had for the cycle
  loaded,        \* the set load_sent_posts returned to the cycle
  load_failed,   \* load_sent_posts took its except branch
  pages,         \* pages whose widgets the cycle scanned
  fetch_failed,  \* number of the page request that returned None (0: none)
  attempts,      \* the sends the cycle has awaited, in order: [token, chat]
  delivered,     \* the tokens of the cycle with a send that did not raise
  savedBefore,   \* everSaved when the cycle started
  droppedBefore, \* everDropped when the cycle started
  clean,         \* no other cycle has run since the cycle's load
  after,         \* the cycle before, if it ran alone and was served the same
  \* history variables of the whole run
  everSaved,     \* tokens written by saves, no load or save having failed since
  everDropped,   \* those of everSaved each send of which raised in their cycle
  lost,          \* fresh tokens of the cycles the last crash ended, not in the file
  prev,          \* the last cycle, if it ran alone: what it was served and did
  done           \* the cycle that ended in the last step, if one did

locals  == <<new_posts, sent_posts, post_i, chat_i, sent_count>>
cychist == <<served, loaded, load_failed, pages, fetch_failed, attempts, delivered,
             savedBefore, droppedBefore, clean, after>>
vars    == <<file, pc, locals, budget, cychist, everSaved, everDropped, lost, prev, done>>

\* ------------------------------------------------------------ sequences
\* a list left in the order it was built
Reverse_same(s) == s

RECURSIVE Reverse(_)
Reverse(s) == IF s = <<>> THEN <<>> ELSE Append(Reverse(Tail(s)), Head(s))

SeqsUpTo(S, n) == UNION {[1..k -> S] : k \in 0..n}

Range(s) == {s[i] : i \in DOMAIN s}

\* ------------------------------------------------------ the seen-set file
Absent == [state |-> "absent", content |-> {}]
Valid(s) == [state |-> "valid", content |-> s]
Corrupt == [state |-> "corrupt", content |-> {}]

\* load_sent_posts took its except branch: open/json.load raised
LoadRaises(f, io_ok) == f.state = "corrupt" \/ (f.state = "valid" /\ ~io_ok)

\* a load that returns what the file holds even when reading it raises
load_sent_posts_stale(f, io_ok) == f.content

load_sent_posts(f, io_ok) ==
  IF f.state = "valid" /\ io_ok THEN f.content ELSE {}

SaveOutcomes == {"ok", "unchanged", "truncated"}

\* a save that never writes
save_sent_posts_skip(f, s, outcome) == f

\* "unchanged": makedirs/open raised; "truncated": open(...,'w') emptied the
\* file and json.dump raised.  Both are caught and logged.
save_sent_posts(f, s, outcome) ==
  CASE outcome = "ok"        -> Valid(s)
    [] outcome = "unchanged" -> f
    [] outcome = "truncated" -> Corrupt

\* what a load that does not raise returns now
Persisted == load_sent_posts(file, TRUE)

\* ----------------------------------------------------------- the upstream
Post(t) == [widget_type |-> "POST_ROW", token |-> t]
Banner(t) == [widget_type |-> "BANNER", token |-> t]

\* what list_widgets may hold: listings, a listing without a token, and
\* entries of another type that carry a token all the same
Widgets == {Post(t) : t \in IDs \cup {NoToken}} \cup {Banner(t) : t \in IDs}

\* page k of an upstream of n pages: its cursor, when present, names page k+1
PagesAt(k, n) ==
  {[list_widgets |-> w, has_next_page |-> h, data |-> d] :
     w \in SeqsUpTo(Widgets, MaxWidgets),
     h \in BOOLEAN,
     d \in IF k < n THEN {NoCursor, k + 1} ELSE {NoCursor}}

\* pages k..n of an upstream of n pages
RECURSIVE PagesFrom(_, _)
PagesFrom(k, n) ==
  IF k > n THEN {<<>>}
  ELSE {<<p>> \o rest : p \in PagesAt(k, n), rest \in PagesFrom(k + 1, n)}

RECURSIVE Concat(_)
Concat(ss) == IF ss = <<>> THEN <<>> ELSE Head(ss) \o Concat(Tail(ss))

\* every entry of the pages, in page order
Entries(u) == Concat([k \in DOMAIN u |-> u[k].list_widgets])

AllUpstreams == UNION {PagesFrom(1, n) : n \in 1..MaxPages}

SmallUpstreams == {u \in AllUpstreams : Len(Entries(u)) <= MaxEntries}

\* what the search API may send back, within the bounds: pages of typed
\* entries, with or without token, "has more" flag and cursor
Upstreams == {u : u \in SmallUpstreams}

\* a well-formed feed: listings only, no token twice, every page but the last
\* says there is more and carries a cursor
PostLists ==
  {s \in SeqsUpTo(IDs, MaxWidgets) : \A i, j \in DOMAIN s : s[i] = s[j] => i = j}

FeedOf(ls) ==
  [k \in DOMAIN ls |->
     [list_widgets |-> [i \in DOMAIN ls[k] |-> Post(ls[k][i])],
      has_next_page |-> k < Len(ls),
      data |-> IF k < Len(ls) THEN k + 1 ELSE NoCursor]]

Feeds ==
  {FeedOf(ls) : ls \in
     {l \in UNION {[1..n -> PostLists] : n \in 1..MaxPages} :
        /\ Len(l) > 1 => \A k \in DOMAIN l : l[k] # <<>>
        /\ \A k, m \in DOMAIN l : k # m => Range(l[k]) \cap Range(l[m]) = {}}}

\* ----------------------------------------------------------- search_divar
None == [ok |-> FALSE]

\* one POST of the page request; `fails` is a transport or status error
search_divar(up, page_data, fails) ==
  IF fails \/ page_data \notin DOMAIN up
  THEN None
  ELSE [ok |-> TRUE, body |-> up[page_data]]

\* ---------------------------------------------------------- get_new_posts
\* the `for widget in widgets` loop
RECURSIVE ScanWidgets(_, _, _)
\* a scan that takes every entry that carries a token, whatever its type
ScanWidgets_any_type(widgets, np, sp) ==
  IF widgets = <<>>
  THEN [new_posts |-> np, sent_posts |-> sp]
  ELSE LET widget == Head(widgets)
           token == widget.token
       IN IF token # NoToken /\ token \notin sp
          THEN ScanWidgets(Tail(widgets), Append(np, widget), sp \cup {token})
          ELSE ScanWidgets(Tail(widgets), np, sp)

ScanWidgets(widgets, np, sp) ==
  IF widgets = <<>>
  THEN [new_posts |-> np, sent_posts |-> sp]
  ELSE LET widget == Head(widgets)
           token == widget.token
       IN IF /\ widget.widget_type = "POST_ROW"
             /\ token # NoToken
             /\ token \notin sp
          THEN ScanWidgets(Tail(widgets), Append(np, widget), sp \cup {token})
          ELSE ScanWidgets(Tail(widgets), np, sp)

\* the `while result` loop, entered with the result of request page_count
RECURSIVE Crawl(_, _, _, _, _, _)
\* a traversal that follows the cursor whatever the "has more" flag says
Crawl_ignores_flag(up, result, page_count, fail_at, np, sp) ==
  IF ~result.ok
  THEN [new_posts |-> np, sent_posts |-> sp,
        pages |-> page_count - 1, fetch_failed |-> page_count]
  ELSE LET scan == ScanWidgets(result.body.list_widgets, np, sp)
       IN IF result.body.data # NoCursor
          THEN Crawl(up,
                     search_divar(up, result.body.data, fail_at = page_count + 1),
                     page_count + 1, fail_at, scan.new_posts, scan.sent_posts)
          ELSE [new_posts |-> scan.new_posts, sent_posts |-> scan.sent_posts,
                pages |-> page_count, fetch_failed |-> 0]

Crawl(up, result, page_count, fail_at, np, sp) ==
  IF ~result.ok
  THEN [new_posts |-> np, sent_posts |-> sp,
        pages |-> page_count - 1, fetch_failed |-> page_count]
  ELSE LET scan == ScanWidgets(result.body.list_widgets, np, sp)
           stop == [new_posts |-> scan.new_posts, sent_posts |-> scan.sent_posts,
                    pages |-> page_count, fetch_failed |-> 0]
       IN IF ~result.body.has_next_page THEN stop
          ELSE IF result.body.data # NoCursor
               THEN Crawl(up,
                          search_divar(up, result.body.data, fail_at = page_count + 1),
                          page_count + 1, fail_at, scan.new_posts, scan.sent_posts)
               ELSE stop

\* a crawl that returns the seen set as it was loaded
get_new_posts_forgets(f, io_ok, up, fail_at) ==
  LET sent == load_sent_posts(f, io_ok)
      result == search_divar(up, FirstPage, fail_at = 1)
      r == Crawl(up, result, 1, fail_at, <<>>, sent)
  IN [new_posts |-> Reverse(r.new_posts), sent_posts |-> sent,
      pages |-> r.pages, fetch_failed |-> r.fetch_failed]

\* a crawl that gives up what it collected when any page request fails
get_new_posts_all_or_nothing(f, io_ok, up, fail_at) ==
  LET sent == load_sent_posts(f, io_ok)
      result == search_divar(up, FirstPage, fail_at = 1)
      r == Crawl(up, result, 1, fail_at, <<>>, sent)
  IN IF r.fetch_failed # 0
     THEN [new_posts |-> <<>>, sent_posts |-> sent,
           pages |-> r.pages, fetch_failed |-> r.fetch_failed]
     ELSE [new_posts |-> Reverse(r.new_posts), sent_posts |-> r.sent_posts,
           pages |-> r.pages, fetch_failed |-> r.fetch_failed]

get_new_posts(f, io_ok, up, fail_at) ==
  LET sent == load_sent_posts(f, io_ok)
      result == search_divar(up, FirstPage, fail_at = 1)
  IN IF ~result.ok
     THEN [new_posts |-> <<>>, sent_posts |-> sent, pages |-> 0, fetch_failed |-> 1]
     ELSE LET r == Crawl(up, result, 1, fail_at, <<>>, sent)
          IN [new_posts |-> Reverse(r.new_posts), sent_posts |-> r.sent_posts,
              pages |-> r.pages, fetch_failed |-> r.fetch_failed]

Tokens(posts) == {posts[i].token : i \in DOMAIN posts}

\* ------------------------------------------------------------- the cycles
NoPrev == [some |-> FALSE, up |-> <<>>, pages |-> 0, fetch_failed |-> 0, saved |-> "none"]

NoDone ==
  [some |-> FALSE, who |-> "", served |-> <<>>, loaded |-> {}, load_failed |-> FALSE,
   pages |-> 0, fetch_failed |-> 0, new_posts |-> <<>>, attempts |-> <<>>,
   delivered |-> {}, sent_count |-> 0, save_called |-> FALSE, save_arg |-> {},
   outcome |-> "none", file_before |-> Absent, after |-> NoPrev, raised |-> FALSE]

\* a coroutine between its load of the seen set and its save
InCycle(c) == pc[c] \in {"found", "send"}

\* `if new_posts:` of both handlers: only then is the loop run and the set saved
HasNew(posts) == posts # <<>>

\* a save after the `if`, taken on both branches
Persist_always(f, posts, sent, outcome) == save_sent_posts(f, sent, outcome)

\* the file after `if new_posts: <loop>; save_sent_posts(sent_posts)` / `else`
Persist(f, posts, sent, outcome) ==
  IF HasNew(posts) THEN save_sent_posts(f, sent, outcome) ELSE f

Init ==
  /\ file = Absent
  /\ pc = [c \in Handlers |-> "idle"]
  /\ new_posts = [c \in Handlers |-> <<>>]
  /\ sent_posts = [c \in Handlers |-> {}]
  /\ post_i = [c \in Handlers |-> 0]
  /\ chat_i = [c \in Handlers |-> 0]
  /\ sent_count = 0
  /\ budget = MaxCycles
  /\ served = [c \in Handlers |-> <<>>]
  /\ loaded = [c \in Handlers |-> {}]
  /\ load_failed = [c \in Handlers |-> FALSE]
  /\ pages = [c \in Handlers |-> 0]
  /\ fetch_failed = [c \in Handlers |-> 0]
  /\ attempts = [c \in Handlers |-> <<>>]
  /\ delivered = [c \in Handlers |-> {}]
  /\ savedBefore = [c \in Handlers |-> {}]
  /\ droppedBefore = [c \in Handlers |-> {}]
  /\ clean = [c \in Handlers |-> FALSE]
  /\ after = [c \in Handlers |-> NoPrev]
  /\ everSaved = {}
  /\ everDropped = {}
  /\ lost = {}
  /\ prev = NoPrev
  /\ done = NoDone

\* the history of a cycle is closed
Forget(c) ==
  /\ served' = [served EXCEPT ![c] = <<>>]
  /\ loaded' = [loaded EXCEPT ![c] = {}]
  /\ load_failed' = [load_failed EXCEPT ![c] = FALSE]
  /\ pages' = [pages EXCEPT ![c] = 0]
  /\ fetch_failed' = [fetch_failed EXCEPT ![c] = 0]
  /\ attempts' = [attempts EXCEPT ![c] = <<>>]
  /\ delivered' = [delivered EXCEPT ![c] = {}]
  /\ savedBefore' = [savedBefore EXCEPT ![c] = {}]
  /\ droppedBefore' = [droppedBefore EXCEPT ![c] = {}]
  /\ clean' = [clean EXCEPT ![c] = FALSE]
  /\ after' = [after EXCEPT ![c] = NoPrev]

\* the handler returns (or dies): its locals are gone
Return(c) ==
  /\ pc' = [pc EXCEPT ![c] = "idle"]
  /\ new_posts' = [new_posts EXCEPT ![c] = <<>>]
  /\ sent_posts' = [sent_posts EXCEPT ![c] = {}]
  /\ post_i' = [post_i EXCEPT ![c] = 0]
  /\ chat_i' = [chat_i EXCEPT ![c] = 0]
  /\ sent_count' = IF c = Button THEN 0 ELSE sent_count

\* the cycle before the one that starts now on `up`, if it ran alone and was
\* served the same pages
Before(up) == IF prev.some /\ prev.up = up THEN prev ELSE NoPrev

\* the tokens a cycle that starts now may rely on: a load that raises has
\* lost the file to this cycle
Kept(io_ok, tokens) == IF LoadRaises(file, io_ok) THEN {} ELSE tokens

\* what a cycle that found nothing new leaves behind: no loop, no save
Nothing(c, io_ok, up, r) ==
  /\ file' = Persist(file, r.new_posts, r.sent_posts, "ok")
  /\ done' = [NoDone EXCEPT
                !.some = TRUE, !.who = c, !.served = up,
                !.loaded = load_sent_posts(file, io_ok),
                !.load_failed = LoadRaises(file, io_ok),
                !.pages = r.pages, !.fetch_failed = r.fetch_failed,
                !.save_arg = r.sent_posts, !.file_before = file,
                !.after = Before(up)]
  /\ prev' = IF InCycle(Other(c))
             THEN NoPrev
             ELSE [some |-> TRUE, up |-> up, pages |-> r.pages,
                   fetch_failed |-> r.fetch_failed, saved |-> "none"]
  /\ clean' = [d \in Handlers |-> FALSE]
  /\ everSaved' = Kept(io_ok, everSaved)
  /\ everDropped' = Kept(io_ok, everDropped)
  /\ UNCHANGED <<served, loaded, load_failed, pages, fetch_failed, attempts, delivered,
                 savedBefore, droppedBefore, after, lost>>

\* a cycle that writes its seen set as soon as it has found new posts
Found_saves(c, io_ok, up, r) ==
  /\ new_posts' = [new_posts EXCEPT ![c] = r.new_posts]
  /\ sent_posts' = [sent_posts EXCEPT ![c] = r.sent_posts]
  /\ post_i' = [post_i EXCEPT ![c] = 1]
  /\ chat_i' = [chat_i EXCEPT ![c] = 1]
  /\ sent_count' = IF c = Button THEN 0 ELSE sent_count
  /\ served' = [served EXCEPT ![c] = up]
  /\ loaded' = [loaded EXCEPT ![c] = load_sent_posts(file, io_ok)]
  /\ load_failed' = [load_failed EXCEPT ![c] = LoadRaises(file, io_ok)]
  /\ pages' = [pages EXCEPT ![c] = r.pages]
  /\ fetch_failed' = [fetch_failed EXCEPT ![c] = r.fetch_failed]
  /\ attempts' = [attempts EXCEPT ![c] = <<>>]
  /\ delivered' = [delivered EXCEPT ![c] = {}]
  /\ savedBefore' = [savedBefore EXCEPT ![c] = Kept(io_ok, everSaved)]
  /\ droppedBefore' = [droppedBefore EXCEPT ![c] = Kept(io_ok, everDropped)]
  /\ clean' = [d \in Handlers |-> d = c /\ ~InCycle(Other(c))]
  /\ after' = [after EXCEPT ![c] = Before(up)]
  /\ everSaved' = Kept(io_ok, everSaved)
  /\ everDropped' = Kept(io_ok, everDropped)
  /\ prev' = NoPrev
  /\ done' = NoDone
  /\ file' = Valid(r.sent_posts)
  /\ UNCHANGED lost

\* what a cycle that found new posts holds when it goes on to deliver them
Found(c, io_ok, up, r) ==
  /\ new_posts' = [new_posts EXCEPT ![c] = r.new_posts]
  /\ sent_posts' = [sent_posts EXCEPT ![c] = r.sent_posts]
  /\ post_i' = [post_i EXCEPT ![c] = 1]
  /\ chat_i' = [chat_i EXCEPT ![c] = 1]
  /\ sent_count' = IF c = Button THEN 0 ELSE sent_count
  /\ served' = [served EXCEPT ![c] = up]
  /\ loaded' = [loaded EXCEPT ![c] = load_sent_posts(file, io_ok)]
  /\ load_failed' = [load_failed EXCEPT ![c] = LoadRaises(file, io_ok)]
  /\ pages' = [pages EXCEPT ![c] = r.pages]
  /\ fetch_failed' = [fetch_failed EXCEPT ![c] = r.fetch_failed]
  /\ attempts' = [attempts EXCEPT ![c] = <<>>]
  /\ delivered' = [delivered EXCEPT ![c] = {}]
  /\ savedBefore' = [savedBefore EXCEPT ![c] = Kept(io_ok, everSaved)]
  /\ droppedBefore' = [droppedBefore EXCEPT ![c] = Kept(io_ok, everDropped)]
  /\ clean' = [d \in Handlers |-> d = c /\ ~InCycle(Other(c))]
  /\ after' = [after EXCEPT ![c] = Before(up)]
  /\ everSaved' = Kept(io_ok, everSaved)
  /\ everDropped' = Kept(io_ok, everDropped)
  /\ prev' = NoPrev
  /\ done' = NoDone
  /\ UNCHANGED <<file, lost>>

\* a handler whose get_new_posts raised and is never run again
AfterRaise_unscheduled(c) == IF c = Timer THEN "stopped" ELSE "idle"

\* where a handler stands after get_new_posts raised: periodic_check catches
\* and logs, and the job stays scheduled; button_handler is left by the
\* exception, and error_handler logs
AfterRaise(c) == "idle"

\* get_new_posts raises on a response it cannot read (a body that is no
\* object, an entry whose 'data' is null): the cycle ends with nothing sent
\* and nothing saved
Raised(c, io_ok) ==
  /\ pc' = [pc EXCEPT ![c] = AfterRaise(c)]
  /\ new_posts' = [new_posts EXCEPT ![c] = <<>>]
  /\ sent_posts' = [sent_posts EXCEPT ![c] = {}]
  /\ done' = [NoDone EXCEPT
                !.some = TRUE, !.who = c,
                !.loaded = load_sent_posts(file, io_ok),
                !.load_failed = LoadRaises(file, io_ok),
                !.save_arg = load_sent_posts(file, io_ok),
                !.file_before = file, !.raised = TRUE]
  /\ prev' = NoPrev
  /\ clean' = [d \in Handlers |-> FALSE]
  /\ everSaved' = Kept(io_ok, everSaved)
  /\ everDropped' = Kept(io_ok, everDropped)
  /\ UNCHANGED <<file, post_i, chat_i, sent_count, served, loaded, load_failed, pages,
                 fetch_failed, attempts, delivered, savedBefore, droppedBefore, after,
                 lost>>

\* periodic_check up to its first await: get_new_posts, then either the first
\* send is awaited or the job returns.  U: what the search API may serve.
PeriodicCheck(U) ==
  /\ pc[Timer] = "idle"
  /\ budget > 0
  /\ budget' = budget - 1
  /\ \/ \E io_ok \in BOOLEAN, up \in U, fail_at \in 0..MaxPages :
          LET r == get_new_posts(file, io_ok, up, fail_at)
          IN IF HasNew(r.new_posts)
             THEN /\ pc' = [pc EXCEPT ![Timer] = "send"]
                  /\ Found(Timer, io_ok, up, r)
             ELSE /\ Nothing(Timer, io_ok, up, r)
                  /\ UNCHANGED <<pc, locals>>
     \/ \E io_ok \in BOOLEAN : Raised(Timer, io_ok)

\* button_handler, data 'check_new', up to `await query.edit_message_text`
\* of the "checking" message
ButtonPress ==
  /\ pc[Button] = "idle"
  /\ pc' = [pc EXCEPT ![Button] = "answer"]
  /\ done' = NoDone
  /\ UNCHANGED <<file, locals, budget, cychist, everSaved, everDropped, lost, prev>>

\* button_handler from get_new_posts to the await of the message that tells
\* the user what was found
ButtonCheck(U) ==
  /\ pc[Button] = "answer"
  /\ budget > 0
  /\ budget' = budget - 1
  /\ \/ \E io_ok \in BOOLEAN, up \in U, fail_at \in 0..MaxPages :
          LET r == get_new_posts(file, io_ok, up, fail_at)
          IN IF HasNew(r.new_posts)
             THEN /\ pc' = [pc EXCEPT ![Button] = "found"]
                  /\ Found(Button, io_ok, up, r)
             ELSE /\ pc' = [pc EXCEPT ![Button] = "reply"]
                  /\ new_posts' = [new_posts EXCEPT ![Button] = r.new_posts]
                  /\ sent_posts' = [sent_posts EXCEPT ![Button] = r.sent_posts]
                  /\ Nothing(Button, io_ok, up, r)
                  /\ UNCHANGED <<post_i, chat_i, sent_count>>
     \/ \E io_ok \in BOOLEAN : Raised(Button, io_ok)

\* the "found" message is out: the loop starts and awaits the first send
ButtonLoop ==
  /\ pc[Button] = "found"
  /\ pc' = [pc EXCEPT ![Button] = "send"]
  /\ done' = NoDone
  /\ UNCHANGED <<file, locals, budget, cychist, everSaved, everDropped, lost, prev>>

\* a Telegram call of button_handler outside any try raises: the handler ends
\* there and error_handler logs
ButtonRaise ==
  /\ pc[Button] \in {"answer", "found"}
  /\ Return(Button)
  /\ Forget(Button)
  /\ done' = NoDone
  /\ UNCHANGED <<file, budget, everSaved, everDropped, lost, prev>>

\* the last message of button_handler is out (or failed): the handler returns
ButtonReturn ==
  /\ pc[Button] = "reply"
  /\ Return(Button)
  /\ done' = NoDone
  /\ UNCHANGED <<file, budget, cychist, everSaved, everDropped, lost, prev>>

\* the awaited send_photo/send_message of send_to_telegram_users: this post
\* to this chat_id
Attempt(c) ==
  [token |-> new_posts[c][post_i[c]].token, chat |-> TELEGRAM_CHAT_IDS[chat_i[c]]]

\* the send ended `ok`, or raised and was caught and logged
Outcome(c, ok) ==
  IF ok THEN delivered[c] \cup {new_posts[c][post_i[c]].token} ELSE delivered[c]

\* loops in which a send that raised is tried once more
NextSend_retry(c, ok) ==
  IF ~ok /\ (attempts[c] = <<>> \/ attempts[c][Len(attempts[c])] # Attempt(c))
  THEN [post |-> post_i[c], chat |-> chat_i[c]]
  ELSE IF chat_i[c] < Len(TELEGRAM_CHAT_IDS)
       THEN [post |-> post_i[c], chat |-> chat_i[c] + 1]
       ELSE IF post_i[c] < Len(new_posts[c])
            THEN [post |-> post_i[c] + 1, chat |-> 1]
            ELSE [post |-> 0, chat |-> 0]

\* loops in which a send that raises ends the sends of its post
NextSend_abort(c, ok) ==
  IF ok /\ chat_i[c] < Len(TELEGRAM_CHAT_IDS)
  THEN [post |-> post_i[c], chat |-> chat_i[c] + 1]
  ELSE IF post_i[c] < Len(new_posts[c])
       THEN [post |-> post_i[c] + 1, chat |-> 1]
       ELSE [post |-> 0, chat |-> 0]

\* where the two loops stand after a send that ended `ok`: the next chat_id
\* of this post, else the first chat_id of the next post, else the loops are
\* over (post 0)
NextSend(c, ok) ==
  IF chat_i[c] < Len(TELEGRAM_CHAT_IDS)
  THEN [post |-> post_i[c], chat |-> chat_i[c] + 1]
  ELSE IF post_i[c] < Len(new_posts[c])
       THEN [post |-> post_i[c] + 1, chat |-> 1]
       ELSE [post |-> 0, chat |-> 0]

\* button_handler's sent_count after the send that moves the loops to `next`
Counted(c, next) ==
  IF c = Button /\ next.post # post_i[c] THEN sent_count + 1 ELSE sent_count

\* a save of the fresh identifiers alone
SaveArg_fresh(c) == Tokens(new_posts[c])

\* a save of the set as it was loaded
SaveArg_loaded(c) == loaded[c]

\* the set both handlers pass to save_sent_posts
SaveArg(c) == sent_posts[c]

\* a send ends and the loops go on to await the next one
Send(c) ==
  /\ pc[c] = "send"
  /\ \E ok \in BOOLEAN :
       LET next == NextSend(c, ok)
       IN /\ next.post # 0
          /\ attempts' = [attempts EXCEPT ![c] = Append(@, Attempt(c))]
          /\ delivered' = [delivered EXCEPT ![c] = Outcome(c, ok)]
          /\ post_i' = [post_i EXCEPT ![c] = next.post]
          /\ chat_i' = [chat_i EXCEPT ![c] = next.chat]
          /\ sent_count' = Counted(c, next)
  /\ done' = NoDone
  /\ UNCHANGED <<file, pc, new_posts, sent_posts, budget, served, loaded, load_failed,
                 pages, fetch_failed, savedBefore, droppedBefore, clean, after,
                 everSaved, everDropped, lost, prev>>

\* the last send ends: the loops are over, save_sent_posts runs, and the
\* timer job returns while button_handler awaits its reply_text
SendLast(c) ==
  /\ pc[c] = "send"
  /\ \E ok \in BOOLEAN, outcome \in SaveOutcomes :
       LET next == NextSend(c, ok)
           dropped == Tokens(new_posts[c]) \ Outcome(c, ok)
       IN /\ next.post = 0
          /\ file' = Persist(file, new_posts[c], SaveArg(c), outcome)
          /\ everSaved' = IF outcome = "ok" THEN everSaved \cup SaveArg(c) ELSE {}
          /\ everDropped' = IF outcome = "ok"
                            THEN (everDropped \ Outcome(c, ok)) \cup (dropped \cap SaveArg(c))
                            ELSE {}
          /\ prev' = IF clean[c]
                     THEN [some |-> TRUE, up |-> served[c], pages |-> pages[c],
                           fetch_failed |-> fetch_failed[c], saved |-> outcome]
                     ELSE NoPrev
          /\ done' = [some |-> TRUE, who |-> c, served |-> served[c],
                      loaded |-> loaded[c], load_failed |-> load_failed[c],
                      pages |-> pages[c], fetch_failed |-> fetch_failed[c],
                      new_posts |-> new_posts[c],
                      attempts |-> Append(attempts[c], Attempt(c)),
                      delivered |-> Outcome(c, ok),
                      sent_count |-> Counted(c, next),
                      save_called |-> TRUE, save_arg |-> SaveArg(c),
                      outcome |-> outcome, file_before |-> file, after |-> after[c],
                      raised |-> FALSE]
          /\ IF c = Timer
             THEN Return(c)
             ELSE /\ pc' = [pc EXCEPT ![c] = "reply"]
                  /\ post_i' = [post_i EXCEPT ![c] = 0]
                  /\ chat_i' = [chat_i EXCEPT ![c] = 0]
                  /\ sent_count' = Counted(c, next)
                  /\ UNCHANGED <<new_posts, sent_posts>>
  /\ Forget(c)
  /\ lost' = {}
  /\ UNCHANGED budget

\* the process is killed and started again: both coroutines are gone, the
\* file stays
Crash ==
  /\ \E c \in Handlers : pc[c] # "idle"
  /\ pc' = [c \in Handlers |-> "idle"]
  /\ new_posts' = [c \in Handlers |-> <<>>]
  /\ sent_posts' = [c \in Handlers |-> {}]
  /\ post_i' = [c \in Handlers |-> 0]
  /\ chat_i' = [c \in Handlers |-> 0]
  /\ sent_count' = 0
  /\ served' = [c \in Handlers |-> <<>>]
  /\ loaded' = [c \in Handlers |-> {}]
  /\ load_failed' = [c \in Handlers |-> FALSE]
  /\ pages' = [c \in Handlers |-> 0]
  /\ fetch_failed' = [c \in Handlers |-> 0]
  /\ attempts' = [c \in Handlers |-> <<>>]
  /\ delivered' = [c \in Handlers |-> {}]
  /\ savedBefore' = [c \in Handlers |-> {}]
  /\ droppedBefore' = [c \in Handlers |-> {}]
  /\ clean' = [c \in Handlers |-> FALSE]
  /\ after' = [c \in Handlers |-> NoPrev]
  /\ lost' = UNION {Tokens(new_posts[c]) \ Persisted : c \in {d \in Handlers : InCycle(d)}}
  /\ done' = NoDone
  /\ UNCHANGED <<file, budget, everSaved, everDropped, prev>>

Next ==
  \/ PeriodicCheck(Feeds)
  \/ ButtonPress
  \/ ButtonCheck(Feeds)
  \/ ButtonLoop
  \/ ButtonRaise
  \/ ButtonReturn
  \/ \E c \in Handlers : Send(c)
  \/ \E c \in Handlers : SendLast(c)
  \/ Crash

Spec == Init /\ [][Next]_vars

\* One cycle of either handler, from any state of the file, against anything
\* the search API may send back.
Files == {Absent, Corrupt} \cup {Valid(s) : s \in SUBSET IDs}

InitCycle ==
  /\ file \in Files
  /\ pc = [c \in Handlers |-> "idle"]
  /\ new_posts = [c \in Handlers |-> <<>>]
  /\ sent_posts = [c \in Handlers |-> {}]
  /\ post_i = [c \in Handlers |-> 0]
  /\ chat_i = [c \in Handlers |-> 0]
  /\ sent_count = 0
  /\ budget = 1
  /\ served = [c \in Handlers |-> <<>>]
  /\ loaded = [c \in Handlers |-> {}]
  /\ load_failed = [c \in Handlers |-> FALSE]
  /\ pages = [c \in Handlers |-> 0]
  /\ fetch_failed = [c \in Handlers |-> 0]
  /\ attempts = [c \in Handlers |-> <<>>]
  /\ delivered = [c \in Handlers |-> {}]
  /\ savedBefore = [c \in Handlers |-> {}]
  /\ droppedBefore = [c \in Handlers |-> {}]
  /\ clean = [c \in Handlers |-> FALSE]
  /\ after = [c \in Handlers |-> NoPrev]
  /\ everSaved = {}
  /\ everDropped = {}
  /\ lost = {}
  /\ prev = NoPrev
  /\ done = NoDone

NextCycle ==
  \/ PeriodicCheck(Upstreams)
  \/ ButtonPress
  \/ ButtonCheck(Upstreams)
  \/ ButtonLoop
  \/ ButtonRaise
  \/ ButtonReturn
  \/ \E c \in Handlers : Send(c)
  \/ \E c \in Handlers : SendLast(c)

SpecCycle == InitCycle /\ [][NextCycle]_vars

\* The timer alone: run_repeating fires periodic_check again and again.
NextTimer ==
  \/ PeriodicCheck(Feeds)
  \/ Send(Timer)
  \/ SendLast(Timer)

SpecTimer == Init /\ [][NextTimer]_vars /\ WF_vars(PeriodicCheck(Feeds))

\* ------------------------------------------------------------ the claims
\* C1: once a save has written identifier x (and no load or save has failed
\* since), no cycle that starts afterwards sends listing x to any recipient.
C1_NoRedeliveryAfterSave ==
  \A c \in Handlers : \A i \in DOMAIN attempts[c] :
    attempts[c][i].token \notin savedBefore[c]

\* C3: a save that succeeds never removes an identifier from the persisted
\* set: what the file held before the save, it holds after it.
C3_MonotonicSeenSet ==
  done.save_called /\ done.outcome = "ok"
    => load_sent_posts(done.file_before, TRUE) \subseteq Persisted

\* C4: the timer's cycle and the button's cycle are never both between their
\* load of the seen set and their save.
C4_AtMostOneCycle == ~(InCycle(Timer) /\ InCycle(Button))

\* the entries of the first n pages, in the order the pages list them
Scanned(up, n) == Entries(SubSeq(up, 1, n))

\* the identifiers of the listings among `entries` that are not in `seen`
FreshTokens(entries, seen) == {t \in IDs \ seen : Post(t) \in Range(entries)}

\* where listing t first appears among `entries`
FirstAt(entries, t) ==
  CHOOSE i \in DOMAIN entries :
    entries[i] = Post(t) /\ \A j \in 1..(i - 1) : entries[j] # Post(t)

\* every listing of `posts` to every chat_id, post by post
AllSends(posts) ==
  [k \in 1..(Len(posts) * NumChats) |->
     [token |-> posts[((k - 1) \div NumChats) + 1].token,
      chat |-> TELEGRAM_CHAT_IDS[((k - 1) % NumChats) + 1]]]

Covered(before, failed, scanned) ==
  /\ before.some
  /\ before.saved \in {"ok", "none"}
  /\ ~failed
  /\ scanned <= before.pages

C5_OldestFirst ==
  \A c \in Handlers :
    InCycle(c) =>
      LET entries == Scanned(served[c], pages[c])
          posts == new_posts[c]
      IN /\ Tokens(posts) = FreshTokens(entries, loaded[c])
         /\ \A a, b \in DOMAIN posts :
              a < b => FirstAt(entries, posts[a].token) > FirstAt(entries, posts[b].token)
         /\ \A i \in DOMAIN attempts[c] : attempts[c][i] = AllSends(posts)[i]

C5_Witness ==
  \E c \in Handlers :
    /\ pc[c] = "send"
    /\ pages[c] = 2
    /\ Len(new_posts[c]) = 2
    /\ new_posts[c][1] \in Range(served[c][2].list_widgets)
    /\ new_posts[c][2] \in Range(served[c][1].list_widgets)
    /\ Len(attempts[c]) > NumChats

\* C6: when the first page request succeeds and a later one fails, the cycle
\* still sends every fresh listing of the pages fetched before the failure
\* to every recipient and saves their identifiers.
C6_PartialFetchDelivers ==
  done.some /\ done.fetch_failed >= 2
    => \A t \in FreshTokens(Scanned(done.served, done.fetch_failed - 1), done.loaded) :
         /\ \A i \in DOMAIN TELEGRAM_CHAT_IDS :
              [token |-> t, chat |-> TELEGRAM_CHAT_IDS[i]] \in Range(done.attempts)
         /\ done.save_called
         /\ t \in done.save_arg
         /\ done.outcome = "ok" => t \in Persisted

C6_Witness ==
  /\ done.some
  /\ done.fetch_failed = 2
  /\ done.outcome = "ok"
  /\ done.new_posts # <<>>
  /\ Tokens(done.new_posts) \subseteq Persisted
  /\ FreshTokens(Scanned(done.served, 2), done.loaded) # Tokens(done.new_posts)

\* C7: a cycle whose first page request fails makes no delivery attempt and
\* no save, and leaves the file exactly as it was.
C7_FirstPageFailure ==
  /\ \A c \in Handlers : InCycle(c) => fetch_failed[c] # 1
  /\ done.some /\ done.fetch_failed = 1
       => /\ done.new_posts = <<>>
          /\ done.attempts = <<>>
          /\ ~done.save_called
          /\ file = done.file_before

C7_Witness ==
  /\ done.some
  /\ done.fetch_failed = 1
  /\ FreshTokens(Entries(done.served), done.loaded) # {}
  /\ file = done.file_before
  /\ done.attempts = <<>>

\* C8: whatever sends raise, a cycle attempts every fresh listing to every
\* recipient, in order, and every fresh listing is in the set it saves.
C8_RecipientIsolation ==
  /\ \A c \in Handlers :
       \A i \in DOMAIN attempts[c] : attempts[c][i] = AllSends(new_posts[c])[i]
  /\ done.save_called
       => /\ done.attempts = AllSends(done.new_posts)
          /\ Tokens(done.new_posts) \subseteq done.save_arg
          /\ done.outcome = "ok" => Tokens(done.new_posts) \subseteq Persisted

C8_Witness ==
  /\ done.save_called
  /\ done.outcome = "ok"
  /\ Len(done.new_posts) = 2
  /\ done.new_posts[1].token \notin done.delivered
  /\ done.new_posts[2].token \in done.delivered
  /\ done.attempts = AllSends(done.new_posts)
  /\ Tokens(done.new_posts) \subseteq Persisted

\* C9: a listing whose every send raised in a cycle is in the set that cycle
\* saves, and no cycle that starts after that save (no load or save having
\* failed since) sends it again.
C9_FailedDeliveryStaysSeen ==
  /\ done.save_called => (Tokens(done.new_posts) \ done.delivered) \subseteq done.save_arg
  /\ \A c \in Handlers : \A i \in DOMAIN attempts[c] :
       attempts[c][i].token \notin droppedBefore[c]

\* C10 as stated: every cycle whose fetch succeeded calls save, also when it
\* found zero fresh listings.
C10_SaveUnconditional ==
  done.some /\ done.fetch_failed = 0 => done.save_called

\* C10 amended: a cycle calls save, with its seen set, exactly when it found
\* at least one fresh listing, once the delivery loop is over; a cycle that
\* found zero fresh listings makes no save and leaves the file as it was.
C10_SaveWhenFresh ==
  done.some
    => /\ done.save_called <=> HasNew(done.new_posts)
       /\ Tokens(done.new_posts) \subseteq done.save_arg
       /\ done.save_called => done.attempts = AllSends(done.new_posts)
       /\ done.save_called /\ done.outcome = "ok" => file = Valid(done.save_arg)
       /\ ~done.save_called => file = done.file_before

C10_Witness ==
  /\ done.some
  /\ done.fetch_failed = 0
  /\ done.pages >= 1
  /\ done.new_posts = <<>>
  /\ ~done.save_called
  /\ file = done.file_before
  /\ FreshTokens(Scanned(done.served, done.pages), {}) # {}

\* the identifiers of the listings among `entries`
BatchTokens(entries) == FreshTokens(entries, {})

\* C11: the fresh listings of a cycle are exactly the distinct identifiers of
\* the fetched batch that are not in the loaded set S, each once, and the
\* seen set the cycle ends with is S united with the identifiers of the batch.
C11_FreshSet ==
  /\ \A c \in Handlers :
       InCycle(c) =>
         LET batch == BatchTokens(Scanned(served[c], pages[c]))
         IN /\ Tokens(new_posts[c]) = batch \ loaded[c]
            /\ Len(new_posts[c]) = Cardinality(batch \ loaded[c])
            /\ sent_posts[c] = loaded[c] \cup batch
  /\ done.some =>
       LET batch == BatchTokens(Scanned(done.served, done.pages))
       IN /\ Tokens(done.new_posts) = batch \ done.loaded
          /\ Len(done.new_posts) = Cardinality(batch \ done.loaded)
          /\ done.save_arg = done.loaded \cup batch

C11_Witness ==
  /\ done.save_called
  /\ done.outcome = "ok"
  /\ done.pages = 2
  /\ done.loaded = {1}
  /\ done.served[1].list_widgets = <<Post(2), Post(1)>>
  /\ done.served[2].list_widgets = <<Post(2)>>
  /\ done.new_posts = <<Post(2)>>
  /\ file = Valid({1, 2})

\* C12: when the file is missing, unparsable or unreadable, the load gives
\* the cycle the empty set, the cycle goes on, and every listing of the pages
\* it scans is fresh.
C12_ColdStart ==
  /\ \A c \in Handlers :
       InCycle(c) /\ (file.state # "valid" \/ load_failed[c])
         => /\ loaded[c] = {}
            /\ Tokens(new_posts[c]) = BatchTokens(Scanned(served[c], pages[c]))
  /\ done.some /\ (done.file_before.state # "valid" \/ done.load_failed)
       => /\ done.loaded = {}
          /\ Tokens(done.new_posts) = BatchTokens(Scanned(done.served, done.pages))

C12_Witness ==
  \E c \in Handlers :
    /\ pc[c] = "send"
    /\ load_failed[c]
    /\ file.state = "valid"
    /\ loaded[c] = {}
    /\ Tokens(new_posts[c]) \cap file.content # {}
    /\ attempts[c] # <<>>

\* the listings a crash took from their cycles before the save are fresh
\* again to every cycle that is served them
LostAreFresh ==
  \A c \in Handlers :
    InCycle(c) =>
      \A t \in lost :
        Post(t) \in Range(Scanned(served[c], pages[c])) => t \in Tokens(new_posts[c])

\* the file is written by the save that follows the delivery loop, never
\* before it
WrittenAfterLoop ==
  file' # file => done'.save_called /\ done'.attempts = AllSends(done'.new_posts)

\* C13: an identifier reaches the file only with the save that follows the
\* delivery loop of its cycle; a crash before that save leaves the file as it
\* was, and the next cycles that are served the listing find it fresh again.
C13_AtLeastOnce == [](LostAreFresh /\ (lost \cap Persisted = {})) /\ [][WrittenAfterLoop]_vars

C13_Witness ==
  \E c \in Handlers :
    /\ pc[c] = "send"
    /\ lost # {}
    /\ lost \subseteq Tokens(new_posts[c])
    /\ lost \cap Persisted = {}
    /\ attempts[c] # <<>>

\* a cycle of the timer has just ended in a failure: a page request failed,
\* get_new_posts raised, the save failed, or every send of a listing raised
TimerFailed ==
  /\ done.some
  /\ done.who = Timer
  /\ \/ done.fetch_failed # 0
     \/ done.raised
     \/ done.save_called /\ done.outcome # "ok"
     \/ done.save_called /\ ~(Tokens(done.new_posts) \subseteq done.delivered)

\* C14: after a cycle of the timer has ended in any failure, the timer fires
\* a later cycle (as long as the run has a firing left).
C14_TimerSurvives ==
  \A k \in 1..MaxCycles : (TimerFailed /\ budget = k) ~> (budget < k)

C14_Witness ==
  /\ done.some
  /\ done.who = Timer
  /\ done.after.some
  /\ done.after.fetch_failed = 1
  /\ done.save_called
  /\ done.outcome = "ok"

\* the first page whose "has more" flag is false or whose cursor is absent
StopsAt(up) ==
  CHOOSE k \in DOMAIN up :
    /\ ~up[k].has_next_page \/ up[k].data = NoCursor
    /\ \A j \in 1..(k - 1) : up[j].has_next_page /\ up[j].data # NoCursor

\* a traversal that scanned `scanned` pages, request `failed` having failed
\* (0: none), went as far as the flags and cursors of `up` allow and no further
Traversed(up, scanned, failed) ==
  IF failed = 0
  THEN scanned = StopsAt(up)
  ELSE scanned = failed - 1 /\ failed <= StopsAt(up)

\* C15: the traversal asks for the next page only after a response with a
\* true "has more" flag and a cursor, stops at the first response without
\* one of them, and keeps the listings of every page it scanned.
C15_Traversal ==
  /\ \A c \in Handlers :
       InCycle(c) =>
         /\ Traversed(served[c], pages[c], fetch_failed[c])
         /\ Tokens(new_posts[c]) = FreshTokens(Scanned(served[c], pages[c]), loaded[c])
  /\ done.some /\ ~done.raised =>
       /\ Traversed(done.served, done.pages, done.fetch_failed)
       /\ Tokens(done.new_posts) = FreshTokens(Scanned(done.served, done.pages), done.loaded)

C15_Witness ==
  /\ done.save_called
  /\ done.fetch_failed = 0
  /\ Len(done.served) = 2
  /\ done.pages = 1
  /\ done.served[1].has_next_page
  /\ done.served[1].data = NoCursor
  /\ FreshTokens(Scanned(done.served, 2), done.loaded) # Tokens(done.new_posts)

\* no entry of `seq` occurs twice
NoRepeat(seq) == \A i, j \in DOMAIN seq : i # j => seq[i] # seq[j]

\* C16: within one cycle no (identifier, recipient) pair is sent twice: an
\* identifier that the pages repeat is once in the fresh list, and a send
\* that raised is not tried again.
C16_OneAttemptPerPair ==
  /\ \A c \in Handlers :
       /\ NoRepeat(attempts[c])
       /\ NoRepeat([i \in DOMAIN new_posts[c] |-> new_posts[c][i].token])
  /\ NoRepeat(done.attempts)
  /\ NoRepeat([i \in DOMAIN done.new_posts |-> done.new_posts[i].token])

C16_Witness ==
  /\ done.save_called
  /\ done.pages = 2
  /\ \E t \in Tokens(done.new_posts) \ done.delivered :
       /\ Post(t) \in Range(done.served[1].list_widgets)
       /\ Post(t) \in Range(done.served[2].list_widgets)
  /\ Len(done.attempts) = Len(done.new_posts) * NumChats
  /\ NoRepeat(done.attempts)

\* C17: the set a cycle passes to save is exactly the set it loaded united
\* with the identifiers it accepted as fresh.
C17_SaveArgIsUnion ==
  /\ \A c \in Handlers :
       InCycle(c) => sent_posts[c] = loaded[c] \cup Tokens(new_posts[c])
  /\ done.save_called => done.save_arg = done.loaded \cup Tokens(done.new_posts)

C17_Witness ==
  /\ done.save_called
  /\ done.outcome = "ok"
  /\ done.loaded # {}
  /\ done.new_posts # <<>>
  /\ done.save_arg = done.loaded \cup Tokens(done.new_posts)
  /\ file = Valid(done.save_arg)

\* C18: the number of delivered listings that button_handler reports counts
\* no listing whose every send raised.
C18_ReportReflectsOutcomes ==
  done.save_called /\ done.who = Button
    => done.sent_count <= Cardinality(done.delivered)

\* what a cycle took as a listing is an entry of type POST_ROW with a token
TakenAreListings(entries, posts, seen_before, seen_after, sends) ==
  /\ \A i \in DOMAIN posts :
       posts[i].widget_type = "POST_ROW" /\ posts[i].token # NoToken
  /\ NoToken \notin seen_after
  /\ \A t \in seen_after \ seen_before : Post(t) \in Range(entries)
  /\ \A i \in DOMAIN sends : Post(sends[i].token) \in Range(entries)

\* C19: an entry of another type than POST_ROW, or a POST_ROW entry without
\* identifier, is never sent and adds nothing to the seen set.
C19_OnlyListings ==
  /\ \A c \in Handlers :
       InCycle(c) =>
         TakenAreListings(Scanned(served[c], pages[c]), new_posts[c], loaded[c],
                          sent_posts[c], attempts[c])
  /\ done.some =>
       TakenAreListings(Scanned(done.served, done.pages), done.new_posts, done.loaded,
                        done.save_arg, done.attempts)

C19_Witness ==
  /\ done.save_called
  /\ done.outcome = "ok"
  /\ \E t \in IDs \ done.save_arg :
       /\ Banner(t) \in Range(Scanned(done.served, done.pages))
       /\ t \notin Persisted
  /\ Post(NoToken) \in Range(Scanned(done.served, done.pages))
  /\ done.new_posts # <<>>

\* C20: with no crash and no failed load or save, no listing is sent twice
\* to the same recipient, however the cycles of the timer and of the button
\* interleave.  Stated of the first two cycles of a run, both still under way.
C20_AtMostOnceInLifetime ==
  /\ InCycle(Timer) /\ InCycle(Button)
  /\ budget = MaxCycles - 2
  /\ ~load_failed[Timer] /\ ~load_failed[Button]
  => Range(attempts[Timer]) \cap Range(attempts[Button]) = {}

====
